---- MODULE Spec2Model ----
(***************************************************************************)
(* Scavenger-hunt game state engine: the two SpacetimeDB modules of the    *)
(* repository.                                                             *)
(*                                                                         *)
(*   backend (src/backend/src/lib.rs): games addressed by a generated      *)
(*     code, checkpoints with an order_index, players that join a game     *)
(*     and scan checkpoints through a per-player cursor (PlayerGame).      *)
(*   server  (src/server/src/lib.rs): games with a setup/active/ended      *)
(*     status, tags, players and a progress table of claims.               *)
(*                                                                         *)
(* A reducer runs as one transaction, so one reducer call is one step.     *)
(* Backend reducers return nothing; the variable bret records which        *)
(* return statement the last call left through (reducer name and source    *)
(* line).  Server reducers return Result<(), String>; sret records the     *)
(* reducer, the source line it left through and the value returned.  A     *)
(* panic inside a reducer (insert on a violated unique constraint) aborts  *)
(* the transaction: the tables keep their values and the caller gets an    *)
(* error.                                                                  *)
(*                                                                         *)
(* Fields that are written once at insert and never read by any reducer    *)
(* and that hold ctx.timestamp (created_at, joined_at, scanned_at) are not *)
(* part of the rows of the model; last_scan_at, which is rewritten, is.    *)
(***************************************************************************)
EXTENDS Integers, Sequences, FiniteSets, TLC

\* ------------------------------------------------------------------ bounds
MaxGames == 2          \* backend: rows of the game table
MaxRunRows == 100      \* backend: games of a run of create_game calls
MaxCheckpoints == 3    \* backend: rows of the checkpoint table
MaxPlayers == 2        \* backend: rows of the player table
MaxOrder == 2          \* backend: largest order_index passed in
MaxUid == 2            \* backend: distinct nfc_uid strings passed in
MaxTime == 2           \* backend: distinct values of ctx.timestamp
MaxGameIds == 2        \* server: distinct game_id strings passed in
MaxTagIds == 2         \* server: distinct tag_id strings passed in
MaxPlayerIds == 2      \* server: distinct player_id strings passed in
MaxOrderIndex == 2     \* server: largest order_index passed in

\* Option<T>: None is the empty tuple, Some(x) the one-element tuple.
None == <<>>
Some(x) == <<x>>
Unwrap(o) == o[1]

VARIABLES
    game,          \* backend table game
    checkpoint,    \* backend table checkpoint
    player,        \* backend table player
    player_game,   \* backend table player_game
    scan_event,    \* backend table scan_event
    bret,          \* backend: exit of the last reducer call
    games,         \* server table games
    tags,          \* server table tags
    players,       \* server table players
    progress,      \* server table progress
    sret           \* server: exit and returned value of the last reducer call

bvars == <<game, checkpoint, player, player_game, scan_event, bret>>
svars == <<games, tags, players, progress, sret>>
vars == <<bvars, svars>>

\* ------------------------------------------------------------- backend
\* Inputs
Names == {"n"}
NfcUids == 1..MaxUid
OrderInputs == 0..MaxOrder
Timestamps == 1..MaxTime
Tokens == {"tok"}

\* Decimal digits of n, most significant first.
RECURSIVE Decimal(_)
Decimal(n) ==
    LET d == CASE n % 10 = 0 -> "0" [] n % 10 = 1 -> "1" [] n % 10 = 2 -> "2"
               [] n % 10 = 3 -> "3" [] n % 10 = 4 -> "4" [] n % 10 = 5 -> "5"
               [] n % 10 = 6 -> "6" [] n % 10 = 7 -> "7" [] n % 10 = 8 -> "8"
               [] OTHER -> "9"
    IN IF n < 10 THEN d ELSE Decimal(n \div 10) \o d

\* format!("{:04}", n): at least four characters, zero padded on the left.
RECURSIVE ZeroPad(_, _)
ZeroPad(s, width) == IF Len(s) >= width THEN s ELSE ZeroPad("0" \o s, width)

get_next_game_id == Cardinality(game) + 1
\* Faulty variant: the rows of the game table are counted.
get_next_player_id_games == Cardinality(game) + 1
get_next_player_id == Cardinality(player) + 1
get_next_checkpoint_id == Cardinality(checkpoint) + 1
get_next_player_game_id == Cardinality(player_game) + 1
get_next_scan_id == Cardinality(scan_event) + 1

\* The minimum width of the number in a game code.
CodeWidth == 4

\* Faulty variant: the count is used as it is, without the + 1.
generate_unique_code_count ==
    "GAME" \o ZeroPad(Decimal(Cardinality(game)), CodeWidth)

generate_unique_code ==
    "GAME" \o ZeroPad(Decimal(Cardinality(game) + 1), CodeWidth)

\* The codes a caller may pass: those of the games that can exist and one more.
GameCodes ==
    {"GAME" \o ZeroPad(Decimal(n), CodeWidth) : n \in 1..(MaxGames + 1)}

BExit(op, line) == [op |-> op, line |-> line]

\* try_insert: Err (table unchanged) when a row with the same primary key or
\* the same unique column exists.
GameInsertOk(row) ==
    \A g \in game : g.game_id # row.game_id /\ g.code # row.code
PlayerInsertOk(row) == \A p \in player : p.player_id # row.player_id
CheckpointInsertOk(row) ==
    \A c \in checkpoint : c.checkpoint_id # row.checkpoint_id
PlayerGameInsertOk(table, row) ==
    \A pg \in table : pg.player_game_id # row.player_game_id
ScanEventInsertOk(row) == \A se \in scan_event : se.scan_id # row.scan_id

\* iter().find(|g| g.code == game_code)
FindGame(game_code) ==
    IF \E g \in game : g.code = game_code
    THEN Some(CHOOSE g \in game : g.code = game_code)
    ELSE None

\* What a backend reducer call leaves behind: the return statement it left
\* through and the five tables.
BResult(ret, g, c, p, pg, se) ==
    [ret |-> ret, game |-> g, checkpoint |-> c, player |-> p,
     player_game |-> pg, scan_event |-> se]

\* A return that has written nothing.
BReturn(op, line) ==
    BResult(BExit(op, line), game, checkpoint, player, player_game, scan_event)

\* The step of a reducer call with outcome r.
BCommit(r) ==
    /\ bret' = r.ret
    /\ game' = r.game
    /\ checkpoint' = r.checkpoint
    /\ player' = r.player
    /\ player_game' = r.player_game
    /\ scan_event' = r.scan_event

create_game_call(name) ==
    LET row == [game_id |-> get_next_game_id, code |-> generate_unique_code,
                name |-> name, is_active |-> TRUE]
    IN BResult(BExit("create_game", 102),
               IF GameInsertOk(row) THEN game \cup {row} ELSE game,
               checkpoint, player, player_game, scan_event)

backend_create_game(name) ==
    /\ Cardinality(game) < MaxGames
    /\ BCommit(create_game_call(name))
    /\ UNCHANGED svars

\* The first number that does not fit in CodeWidth digits.
CodeRollover == 10 ^ CodeWidth

\* The game table that n create_game calls leave.
GamesCreated(n) ==
    {[game_id |-> k, code |-> "GAME" \o ZeroPad(Decimal(k), CodeWidth),
      name |-> "n", is_active |-> TRUE] : k \in 1..n}

\* Runs of create_game calls are followed over the first MaxRunRows games
\* and again from MaxGames games before the rollover to MaxGames after it.
RunStarts == {0} \cup ((CodeRollover - MaxGames)..(CodeRollover - 1))
InRun(n) ==
    \/ n < MaxRunRows
    \/ n >= CodeRollover - MaxGames /\ n < CodeRollover + MaxGames

create_game_run(name) ==
    /\ InRun(Cardinality(game))
    /\ BCommit(create_game_call(name))
    /\ UNCHANGED svars

\* Faulty variant: the duplicate scan compares the nfc_uid only.
DuplicateCheckpoint_uid(g, nfc_uid, order_index) ==
    \E c \in checkpoint : c.game_id = g.game_id /\ c.nfc_uid = nfc_uid

\* The duplicate scan of register_checkpoint: a checkpoint of the game with
\* the same nfc_uid or the same order_index.
DuplicateCheckpoint(g, nfc_uid, order_index) ==
    \E c \in checkpoint :
        /\ c.game_id = g.game_id
        /\ (c.nfc_uid = nfc_uid \/ c.order_index = order_index)

register_checkpoint_call(game_code, nfc_uid, location_name, order_index) ==
    LET found == FindGame(game_code)
        g == Unwrap(found)
        row == [checkpoint_id |-> get_next_checkpoint_id, game_id |-> g.game_id,
                nfc_uid |-> nfc_uid, location_name |-> location_name,
                order_index |-> order_index]
    IN IF order_index = 0 THEN BReturn("register_checkpoint", 113)
       ELSE IF found = None THEN BReturn("register_checkpoint", 118)
       ELSE IF DuplicateCheckpoint(g, nfc_uid, order_index)
       THEN BReturn("register_checkpoint", 125)
       ELSE BResult(BExit("register_checkpoint", 139), game,
                    IF CheckpointInsertOk(row)
                    THEN checkpoint \cup {row} ELSE checkpoint,
                    player, player_game, scan_event)

register_checkpoint(game_code, nfc_uid, location_name, order_index) ==
    LET r == register_checkpoint_call(game_code, nfc_uid, location_name,
                                      order_index)
    IN /\ Cardinality(r.checkpoint) <= MaxCheckpoints
       /\ BCommit(r)
       /\ UNCHANGED svars

join_game_call(game_code, display_name) ==
    LET found == FindGame(game_code)
        g == Unwrap(found)
        player_id == get_next_player_id
        prow == [player_id |-> player_id, display_name |-> display_name]
        pgrow == [player_game_id |-> get_next_player_game_id,
                  player_id |-> player_id, game_id |-> g.game_id,
                  checkpoints_scanned |-> 0, last_scan_at |-> None,
                  next_required |-> 1]
    IN IF found = None THEN BReturn("join_game", 149)
       ELSE IF ~g.is_active THEN BReturn("join_game", 153)
       ELSE IF ~PlayerInsertOk(prow) THEN BReturn("join_game", 164)
       ELSE BResult(BExit("join_game", 178), game, checkpoint,
                    player \cup {prow},
                    IF PlayerGameInsertOk(player_game, pgrow)
                    THEN player_game \cup {pgrow} ELSE player_game,
                    scan_event)

join_game(game_code, display_name) ==
    LET r == join_game_call(game_code, display_name)
    IN /\ Cardinality(r.player) <= MaxPlayers
       /\ BCommit(r)
       /\ UNCHANGED svars

\* iter().find(|cp| cp.game_id == game.game_id && cp.nfc_uid == nfc_uid)
FindCheckpoint(g, nfc_uid) ==
    LET m == {c \in checkpoint : c.game_id = g.game_id /\ c.nfc_uid = nfc_uid}
    IN IF m = {} THEN None ELSE Some(CHOOSE c \in m : TRUE)

\* Faulty variant: the first row of the game is taken, whoever the player.
FindPlayerGame_anyplayer(g, player_id) ==
    LET m == {pg \in player_game : pg.game_id = g.game_id}
    IN IF m = {} THEN None ELSE Some(CHOOSE pg \in m : TRUE)

\* iter().find(|pg| pg.player_id == player_id && pg.game_id == game.game_id)
FindPlayerGame(g, player_id) ==
    LET m == {pg \in player_game :
                 pg.player_id = player_id /\ pg.game_id = g.game_id}
    IN IF m = {} THEN None ELSE Some(CHOOSE pg \in m : TRUE)

\* Faulty variant: only a checkpoint behind the cursor is refused, so a player may
\* skip ahead.
OrderViolation_behind(cp, pg) == cp.order_index < pg.next_required

\* Order enforcement: the scan is refused unless the checkpoint is the next
\* one of the player's cursor.
OrderViolation(cp, pg) == cp.order_index # pg.next_required

already_scanned(g, player_id, cp) ==
    \E se \in scan_event :
        /\ se.game_id = g.game_id
        /\ se.player_id = player_id
        /\ se.checkpoint_id = cp.checkpoint_id

\* Faulty variant: the scan counter is written back without the increment.
updated_player_game_uncounted(pg, ts) ==
    [player_game_id |-> pg.player_game_id, player_id |-> pg.player_id,
     game_id |-> pg.game_id, checkpoints_scanned |-> pg.checkpoints_scanned,
     last_scan_at |-> Some(ts), next_required |-> pg.next_required + 1]

\* Faulty variant: the cursor skips one order_index.
updated_player_game_skip(pg, ts) ==
    [player_game_id |-> pg.player_game_id, player_id |-> pg.player_id,
     game_id |-> pg.game_id,
     checkpoints_scanned |-> pg.checkpoints_scanned + 1,
     last_scan_at |-> Some(ts), next_required |-> pg.next_required + 2]

\* The cursor row written back after a recorded scan.
updated_player_game(pg, ts) ==
    [player_game_id |-> pg.player_game_id, player_id |-> pg.player_id,
     game_id |-> pg.game_id,
     checkpoints_scanned |-> pg.checkpoints_scanned + 1,
     last_scan_at |-> Some(ts), next_required |-> pg.next_required + 1]

scan_checkpoint_call(player_id, game_code, nfc_uid, client_token, ts) ==
    LET found == FindGame(game_code)
        g == Unwrap(found)
        found_cp == FindCheckpoint(g, nfc_uid)
        cp == Unwrap(found_cp)
        found_pg == FindPlayerGame(g, player_id)
        pg == Unwrap(found_pg)
        se == [scan_id |-> get_next_scan_id, game_id |-> g.game_id,
               player_id |-> player_id, checkpoint_id |-> cp.checkpoint_id,
               client_token |-> client_token]
        deleted == {r \in player_game : r.player_game_id # pg.player_game_id}
        upd == updated_player_game(pg, ts)
    IN IF found = None THEN BReturn("scan_checkpoint", 190)
       ELSE IF ~g.is_active THEN BReturn("scan_checkpoint", 194)
       ELSE IF found_cp = None THEN BReturn("scan_checkpoint", 200)
       ELSE IF found_pg = None THEN BReturn("scan_checkpoint", 206)
       ELSE IF OrderViolation(cp, pg) THEN BReturn("scan_checkpoint", 211)
       ELSE IF already_scanned(g, player_id, cp)
       THEN BReturn("scan_checkpoint", 221)
       ELSE IF ~ScanEventInsertOk(se) THEN BReturn("scan_checkpoint", 235)
       ELSE BResult(BExit("scan_checkpoint", 251), game, checkpoint, player,
                    IF PlayerGameInsertOk(deleted, upd)
                    THEN deleted \cup {upd} ELSE deleted,
                    scan_event \cup {se})

scan_checkpoint(player_id, game_code, nfc_uid, client_token, ts) ==
    /\ BCommit(scan_checkpoint_call(player_id, game_code, nfc_uid,
                                    client_token, ts))
    /\ UNCHANGED svars

BackendInit ==
    /\ game = {}
    /\ checkpoint = {}
    /\ player = {}
    /\ player_game = {}
    /\ scan_event = {}
    /\ bret = BExit("init", 0)

PlayerIdInputs == 1..(MaxPlayers + 1)

BackendNext ==
    \/ \E name \in Names : backend_create_game(name)
    \/ \E code \in GameCodes, uid \in NfcUids, loc \in Names,
          oi \in OrderInputs : register_checkpoint(code, uid, loc, oi)
    \/ \E code \in GameCodes, name \in Names : join_game(code, name)
    \/ \E pid \in PlayerIdInputs, code \in GameCodes, uid \in NfcUids,
          tok \in Tokens, ts \in Timestamps :
          scan_checkpoint(pid, code, uid, tok, ts)

\* -------------------------------------------------------------- server
\* Inputs.  Ids are strings; "g1", "g2", ... stand for arbitrary distinct ones.
GameIds == {"g" \o Decimal(n) : n \in 1..MaxGameIds}
TagIds == {"t" \o Decimal(n) : n \in 1..MaxTagIds}
PlayerIds == {"p" \o Decimal(n) : n \in 1..MaxPlayerIds}
Clues == {None, Some("clue")}
OrderIndexes == {None} \cup {Some(k) : k \in 1..MaxOrderIndex}
Teams == {None}

Ok == "Ok"
SRet(op, line, val) == [op |-> op, line |-> line, val |-> val]
\* A panic inside the reducer: the transaction is rolled back and the caller
\* sees an error.
Panic == "panic: unique constraint violation"
IsErr(r) == r.val # Ok

\* games().game_id().find(&game_id)
FindGameRow(game_id) ==
    LET m == {g \in games : g.game_id = game_id}
    IN IF m = {} THEN None ELSE Some(CHOOSE g \in m : TRUE)

\* tags().tag_id().find(&tag_id)
FindTag(tag_id) ==
    LET m == {t \in tags : t.tag_id = tag_id}
    IN IF m = {} THEN None ELSE Some(CHOOSE t \in m : TRUE)

\* players().player_id().find(&player_id)
FindPlayer(player_id) ==
    LET m == {p \in players : p.player_id = player_id}
    IN IF m = {} THEN None ELSE Some(CHOOSE p \in m : TRUE)

\* progress().game_id().find(&game_id): the primary key of Progress is the
\* column game_id alone.
FindProgressByKey(game_id) ==
    LET m == {p \in progress : p.game_id = game_id}
    IN IF m = {} THEN None ELSE Some(CHOOSE p \in m : TRUE)

\* progress().insert(row) succeeds only if no row has the same primary key;
\* otherwise it panics.
ProgressInsertOk(row) == \A p \in progress : p.game_id # row.game_id

\* What a server reducer call leaves behind: the value returned (with the
\* reducer and the line it left through) and the four tables.
SResult(ret, g, t, pl, pr) ==
    [ret |-> ret, games |-> g, tags |-> t, players |-> pl, progress |-> pr]

\* A return (or panic) that leaves the tables as they were.
SReturn(op, line, val) == SResult(SRet(op, line, val), games, tags, players, progress)

\* The step of a reducer call with outcome r.
SCommit(r) ==
    /\ sret' = r.ret
    /\ games' = r.games
    /\ tags' = r.tags
    /\ players' = r.players
    /\ progress' = r.progress

server_create_game_call(game_id) ==
    IF FindGameRow(game_id) # None
    THEN SReturn("create_game", 47, "Game with this ID already exists")
    ELSE SResult(SRet("create_game", 58, Ok),
                 games \cup {[game_id |-> game_id, status |-> "setup",
                              started_at |-> None, ended_at |-> None]},
                 tags, players, progress)

server_create_game(game_id) ==
    SCommit(server_create_game_call(game_id)) /\ UNCHANGED bvars

\* games().game_id().update(row): replace the row with row's primary key.
UpdateGame(row) == {g \in games : g.game_id # row.game_id} \cup {row}

\* Faulty variant: start_game refuses only a game that is running.
StartAllowed_notactive(g) == g.status # "active"

\* The status test of start_game.
StartAllowed(g) == g.status = "setup"

start_game_call(game_id) ==
    LET found == FindGameRow(game_id)
        g == Unwrap(found)
    IN IF found = None THEN SReturn("start_game", 78, "Game not found")
       ELSE IF ~StartAllowed(g)
       THEN SReturn("start_game", 66, "Game is not in setup status")
       ELSE SResult(SRet("start_game", 76, Ok),
                    UpdateGame([g EXCEPT !.status = "active",
                                         !.started_at = Some(0)]),
                    tags, players, progress)

start_game(game_id) == SCommit(start_game_call(game_id)) /\ UNCHANGED bvars

\* The status test of end_game.
EndAllowed(g) == g.status = "active"

\* Faulty variant: the row is written before the status is tested.
end_game_call_writefirst(game_id) ==
    LET found == FindGameRow(game_id)
        g == Unwrap(found)
        written == UpdateGame([g EXCEPT !.status = "ended",
                                        !.ended_at = Some(0)])
    IN IF found = None THEN SReturn("end_game", 99, "Game not found")
       ELSE IF ~EndAllowed(g)
       THEN SResult(SRet("end_game", 87, "Game is not active"),
                    written, tags, players, progress)
       ELSE SResult(SRet("end_game", 97, Ok), written, tags, players, progress)

end_game_call(game_id) ==
    LET found == FindGameRow(game_id)
        g == Unwrap(found)
    IN IF found = None THEN SReturn("end_game", 99, "Game not found")
       ELSE IF ~EndAllowed(g)
       THEN SReturn("end_game", 87, "Game is not active")
       ELSE SResult(SRet("end_game", 97, Ok),
                    UpdateGame([g EXCEPT !.status = "ended",
                                         !.ended_at = Some(0)]),
                    tags, players, progress)

end_game(game_id) == SCommit(end_game_call(game_id)) /\ UNCHANGED bvars

\* Option::or
OptionOr(a, b) == IF a # None THEN a ELSE b

\* The row activate_tag writes: the update of an existing row, else a new row.
ActivatedTag(found, game_id, tag_id, clue, order_index) ==
    IF found # None
    THEN [Unwrap(found) EXCEPT
            !.is_active = TRUE,
            !.clue = OptionOr(clue, Unwrap(found).clue),
            !.order_index = OptionOr(order_index, Unwrap(found).order_index)]
    ELSE [tag_id |-> tag_id, game_id |-> game_id, is_active |-> TRUE,
          clue |-> clue, order_index |-> order_index]

activate_tag_call(game_id, tag_id, clue, order_index) ==
    LET row == ActivatedTag(FindTag(tag_id), game_id, tag_id, clue, order_index)
    IN IF FindGameRow(game_id) = None
       THEN SReturn("activate_tag", 107, "Game not found")
       ELSE SResult(SRet("activate_tag", 129, Ok), games,
                    {t \in tags : t.tag_id # row.tag_id} \cup {row},
                    players, progress)

activate_tag(game_id, tag_id, clue, order_index) ==
    /\ SCommit(activate_tag_call(game_id, tag_id, clue, order_index))
    /\ UNCHANGED bvars

upsert_player_call(player_id, name, team) ==
    LET found == FindPlayer(player_id)
        row == IF found # None
               THEN [Unwrap(found) EXCEPT !.name = name, !.team = team]
               ELSE [player_id |-> player_id, name |-> name, team |-> team]
    IN SResult(SRet("upsert_player", 150, Ok), games, tags,
               {p \in players : p.player_id # player_id} \cup {row}, progress)

upsert_player(player_id, name, team) ==
    SCommit(upsert_player_call(player_id, name, team)) /\ UNCHANGED bvars

\* Faulty variant: the scan for the existing row compares the wrong columns.
AlreadyClaimed_swapped(game_id, player_id, tag_id) ==
    /\ FindProgressByKey(game_id) # None
    /\ \E p \in progress :
          p.game_id = game_id /\ p.player_id = tag_id /\ p.tag_id = player_id

\* The idempotency test of claim_tag: the key lookup on game_id, then the
\* scan for the exact (game_id, player_id, tag_id) row.
AlreadyClaimed(game_id, player_id, tag_id) ==
    /\ FindProgressByKey(game_id) # None
    /\ \E p \in progress :
          p.game_id = game_id /\ p.player_id = player_id /\ p.tag_id = tag_id

\* Faulty variant: the status of the game is not tested.
ClaimRefusal_anystatus(game_id, player_id, tag_id) ==
    LET found == FindGameRow(game_id)
        found_tag == FindTag(tag_id)
    IN IF found = None
       THEN Some(SReturn("claim_tag", 162, "Game not found"))
       ELSE IF found_tag = None
       THEN Some(SReturn("claim_tag", 174, "Tag not found"))
       ELSE IF ~Unwrap(found_tag).is_active
       THEN Some(SReturn("claim_tag", 168, "Tag is not active"))
       ELSE IF Unwrap(found_tag).game_id # game_id
       THEN Some(SReturn("claim_tag", 171, "Tag does not belong to this game"))
       ELSE None

\* What claim_tag checks before it looks at the progress table: None to go
\* on, else the return it leaves through.  The tag's order_index is not read.
ClaimRefusal(game_id, player_id, tag_id) ==
    LET found == FindGameRow(game_id)
        found_tag == FindTag(tag_id)
    IN IF found = None
       THEN Some(SReturn("claim_tag", 162, "Game not found"))
       ELSE IF Unwrap(found).status # "active"
       THEN Some(SReturn("claim_tag", 159, "Game is not active"))
       ELSE IF found_tag = None
       THEN Some(SReturn("claim_tag", 174, "Tag not found"))
       ELSE IF ~Unwrap(found_tag).is_active
       THEN Some(SReturn("claim_tag", 168, "Tag is not active"))
       ELSE IF Unwrap(found_tag).game_id # game_id
       THEN Some(SReturn("claim_tag", 171, "Tag does not belong to this game"))
       ELSE None

claim_tag_call(game_id, player_id, tag_id) ==
    LET refusal == ClaimRefusal(game_id, player_id, tag_id)
        row == [game_id |-> game_id, player_id |-> player_id,
                tag_id |-> tag_id, ts |-> 0]
    IN IF refusal # None THEN Unwrap(refusal)
       ELSE IF AlreadyClaimed(game_id, player_id, tag_id)
       THEN SReturn("claim_tag", 185, Ok)
       ELSE IF ~ProgressInsertOk(row) THEN SReturn("claim_tag", 190, Panic)
       ELSE SResult(SRet("claim_tag", 198, Ok), games, tags, players,
                    progress \cup {row})

claim_tag(game_id, player_id, tag_id) ==
    SCommit(claim_tag_call(game_id, player_id, tag_id)) /\ UNCHANGED bvars

\* Faulty variant: every progress row of the game is deleted with the tag.
delete_tag_call_allrows(game_id, tag_id) ==
    LET found == FindTag(tag_id)
    IN IF found = None THEN SReturn("delete_tag", 210, "Tag not found")
       ELSE IF Unwrap(found).game_id # game_id
       THEN SReturn("delete_tag", 207, "Tag does not belong to this game")
       ELSE SResult(SRet("delete_tag", 228, Ok), games,
                    {t \in tags : t.tag_id # tag_id}, players,
                    {p \in progress : p.game_id # game_id})

\* Faulty variant: the progress rows of the tag are left in place.
delete_tag_call_keeprows(game_id, tag_id) ==
    LET found == FindTag(tag_id)
    IN IF found = None THEN SReturn("delete_tag", 210, "Tag not found")
       ELSE IF Unwrap(found).game_id # game_id
       THEN SReturn("delete_tag", 207, "Tag does not belong to this game")
       ELSE SResult(SRet("delete_tag", 228, Ok), games,
                    {t \in tags : t.tag_id # tag_id}, players, progress)

delete_tag_call(game_id, tag_id) ==
    LET found == FindTag(tag_id)
    IN IF found = None THEN SReturn("delete_tag", 210, "Tag not found")
       ELSE IF Unwrap(found).game_id # game_id
       THEN SReturn("delete_tag", 207, "Tag does not belong to this game")
       ELSE SResult(SRet("delete_tag", 228, Ok), games,
                    {t \in tags : t.tag_id # tag_id}, players,
                    {p \in progress :
                        ~(p.game_id = game_id /\ p.tag_id = tag_id)})

delete_tag(game_id, tag_id) ==
    SCommit(delete_tag_call(game_id, tag_id)) /\ UNCHANGED bvars

delete_player_call(game_id, player_id) ==
    IF FindGameRow(game_id) = None
    THEN SReturn("delete_player", 236, "Game not found")
    ELSE SResult(SRet("delete_player", 249, Ok), games, tags, players,
                 {p \in progress :
                     ~(p.game_id = game_id /\ p.player_id = player_id)})

delete_player(game_id, player_id) ==
    SCommit(delete_player_call(game_id, player_id)) /\ UNCHANGED bvars

delete_progress_call(game_id, player_id, tag_id) ==
    LET m == {p \in progress : p.game_id = game_id /\ p.player_id = player_id
                               /\ p.tag_id = tag_id}
    IN IF m = {}
       THEN SReturn("delete_progress", 260, "Progress entry not found")
       ELSE SResult(SRet("delete_progress", 270, Ok), games, tags, players,
                    progress \ {CHOOSE p \in m : TRUE})

delete_progress(game_id, player_id, tag_id) ==
    SCommit(delete_progress_call(game_id, player_id, tag_id)) /\ UNCHANGED bvars

\* Faulty variant: the orphan test reads the progress table as it was before
\* the game's rows were deleted.
OrphanPlayers_stale(remaining) ==
    {pl \in players : ~\E p \in progress : p.player_id = pl.player_id}

\* The players with no progress row among the remaining ones.
OrphanPlayers(remaining) ==
    {pl \in players : ~\E p \in remaining : p.player_id = pl.player_id}

\* Faulty variant: the tags of the game are left in place.
delete_game_cascade_call_keeptags(game_id, delete_orphan_players) ==
    LET remaining == {p \in progress : p.game_id # game_id}
    IN IF FindGameRow(game_id) = None
       THEN SReturn("delete_game_cascade", 278, "Game not found")
       ELSE SResult(SRet("delete_game_cascade", 329, Ok),
                    {g \in games : g.game_id # game_id}, tags,
                    IF delete_orphan_players
                    THEN players \ OrphanPlayers(remaining) ELSE players,
                    remaining)

delete_game_cascade_call(game_id, delete_orphan_players) ==
    LET remaining == {p \in progress : p.game_id # game_id}
    IN IF FindGameRow(game_id) = None
       THEN SReturn("delete_game_cascade", 278, "Game not found")
       ELSE SResult(SRet("delete_game_cascade", 329, Ok),
                    {g \in games : g.game_id # game_id},
                    {t \in tags : t.game_id # game_id},
                    IF delete_orphan_players
                    THEN players \ OrphanPlayers(remaining) ELSE players,
                    remaining)

delete_game_cascade(game_id, delete_orphan_players) ==
    /\ SCommit(delete_game_cascade_call(game_id, delete_orphan_players))
    /\ UNCHANGED bvars

ServerInit ==
    /\ games = {}
    /\ tags = {}
    /\ players = {}
    /\ progress = {}
    /\ sret = SRet("init", 335, Ok)

Init == BackendInit /\ ServerInit

ServerNext ==
    \/ \E g \in GameIds : server_create_game(g)
    \/ \E g \in GameIds : start_game(g)
    \/ \E g \in GameIds : end_game(g)
    \/ \E g \in GameIds, t \in TagIds, c \in Clues, oi \in OrderIndexes :
          activate_tag(g, t, c, oi)
    \/ \E p \in PlayerIds, n \in Names, tm \in Teams : upsert_player(p, n, tm)
    \/ \E g \in GameIds, p \in PlayerIds, t \in TagIds : claim_tag(g, p, t)
    \/ \E g \in GameIds, t \in TagIds : delete_tag(g, t)
    \/ \E g \in GameIds, p \in PlayerIds : delete_player(g, p)
    \/ \E g \in GameIds, p \in PlayerIds, t \in TagIds :
          delete_progress(g, p, t)
    \/ \E g \in GameIds, b \in BOOLEAN : delete_game_cascade(g, b)

SpecBackend == Init /\ [][BackendNext]_vars

\* Only create_game is called, starting after some number of earlier calls.
CodesInit ==
    /\ game \in {GamesCreated(n) : n \in RunStarts}
    /\ checkpoint = {}
    /\ player = {}
    /\ player_game = {}
    /\ scan_event = {}
    /\ bret = BExit("init", 0)
    /\ ServerInit

CodesNext == \E name \in Names : create_game_run(name)

SpecCodes == CodesInit /\ [][CodesNext]_vars

SpecServer == Init /\ [][ServerNext]_vars

\* ===================================================== backend properties
\* The checkpoint row a scan event refers to.
CheckpointOf(se) == CHOOSE c \in checkpoint : c.checkpoint_id = se.checkpoint_id

\* The scan events of player pid in the game with id gid.
ScansOf(pid, gid) ==
    {se \in scan_event : se.player_id = pid /\ se.game_id = gid}

\* Player pid has scanned, in game gid, a checkpoint of that game with
\* order_index k.
HasScanned(pid, gid, k) ==
    \E se \in ScansOf(pid, gid) :
        /\ CheckpointOf(se).game_id = gid
        /\ CheckpointOf(se).order_index = k

PrefixScanned ==
    \A se \in scan_event :
        \A j \in 1..(CheckpointOf(se).order_index - 1) :
            HasScanned(se.player_id, se.game_id, j)

\* A scan_checkpoint call whose game, checkpoint and cursor resolve and whose
\* checkpoint is not the cursor's next one leaves through the order
\* enforcement return and writes nothing.
OutOfOrderRejected ==
    \A pid \in PlayerIdInputs, code \in GameCodes, uid \in NfcUids,
       tok \in Tokens, ts \in Timestamps :
        LET fg == FindGame(code)
            fcp == FindCheckpoint(Unwrap(fg), uid)
            fpg == FindPlayerGame(Unwrap(fg), pid)
        IN (/\ fg # None
            /\ Unwrap(fg).is_active
            /\ fcp # None
            /\ fpg # None
            /\ Unwrap(fcp).order_index # Unwrap(fpg).next_required)
           => scan_checkpoint_call(pid, code, uid, tok, ts)
                 = BReturn("scan_checkpoint", 211)

\* C1: a player's scans of a game cover every order_index below each scanned
\* one, and a scan_checkpoint call for a checkpoint that is not the cursor's
\* next_required is refused through the order enforcement return and records
\* nothing.
C1_SequentialScans == PrefixScanned /\ OutOfOrderRejected

\* A player has scanned order_index 2 (after 1) and the last call was refused
\* by the order enforcement.
C1_Witness ==
    /\ bret = BExit("scan_checkpoint", 211)
    /\ \E se \in scan_event : CheckpointOf(se).order_index = 2

CheckpointsUnique ==
    /\ \A c \in checkpoint : c.order_index >= 1
    /\ \A c1, c2 \in checkpoint :
          (c1.game_id = c2.game_id /\ c1 # c2)
          => (c1.nfc_uid # c2.nfc_uid /\ c1.order_index # c2.order_index)

\* A register_checkpoint call with order_index 0, an unknown game code, or an
\* nfc_uid or order_index already used in the game adds no checkpoint.
BadRegisterAddsNothing ==
    \A code \in GameCodes, uid \in NfcUids, loc \in Names, oi \in OrderInputs :
        LET fg == FindGame(code)
            clash == \E c \in checkpoint :
                        /\ c.game_id = Unwrap(fg).game_id
                        /\ (c.nfc_uid = uid \/ c.order_index = oi)
        IN (oi = 0 \/ fg = None \/ clash)
           => register_checkpoint_call(code, uid, loc, oi).checkpoint = checkpoint

\* C5: within a game no two checkpoints share nfc_uid or order_index, every
\* order_index is at least 1, and a register_checkpoint call that would break
\* this or names an unknown game adds no checkpoint.
C5_CheckpointUniqueness == CheckpointsUnique /\ BadRegisterAddsNothing

\* Two checkpoints in one game and a registration just refused as a duplicate.
C5_Witness ==
    /\ bret = BExit("register_checkpoint", 125)
    /\ \E c1, c2 \in checkpoint : c1 # c2 /\ c1.game_id = c2.game_id

\* The exits of scan_checkpoint that stand for success: the silent return on
\* an already recorded scan and the end of the function after recording.
ScanSuccess ==
    {BExit("scan_checkpoint", 221), BExit("scan_checkpoint", 251)}

\* C7: a scan of a checkpoint the player has already scanned in an active
\* game returns success (not the out-of-order refusal), adds no scan event
\* and leaves the player's cursor row unchanged.
C7_IdempotentRescan ==
    [][\A pid \in PlayerIdInputs, code \in GameCodes, uid \in NfcUids,
          tok \in Tokens, ts \in Timestamps :
           LET fg == FindGame(code)
               fcp == FindCheckpoint(Unwrap(fg), uid)
           IN (/\ fg # None
               /\ Unwrap(fg).is_active
               /\ fcp # None
               /\ \E se \in ScansOf(pid, Unwrap(fg).game_id) :
                     se.checkpoint_id = Unwrap(fcp).checkpoint_id
               /\ scan_checkpoint(pid, code, uid, tok, ts))
              => /\ bret' \in ScanSuccess
                 /\ UNCHANGED <<scan_event, player_game>>]_vars

CursorMatchesScans ==
    /\ \A pg \in player_game :
          /\ pg.checkpoints_scanned =
                Cardinality(ScansOf(pg.player_id, pg.game_id))
          /\ pg.next_required = pg.checkpoints_scanned + 1
    /\ \A se \in scan_event :
          \E pg \in player_game :
              pg.player_id = se.player_id /\ pg.game_id = se.game_id
    /\ \A se1, se2 \in scan_event :
          (/\ se1.game_id = se2.game_id
           /\ se1.player_id = se2.player_id
           /\ se1.checkpoint_id = se2.checkpoint_id) => se1 = se2

\* C9: for every PlayerGame row checkpoints_scanned is the number of the
\* player's scan events in the game and next_required is one more; every scan
\* event has its cursor row; at most one scan event per (game, player,
\* checkpoint).
C9_CursorClaimConsistency == CursorMatchesScans

\* A player with two recorded scans.
C9_Witness ==
    \E pg \in player_game :
        /\ pg.checkpoints_scanned = 2
        /\ Cardinality(ScansOf(pg.player_id, pg.game_id)) = 2

\* Every cursor row stays, with the same identity, and its two counters either
\* both stay or both grow by one; a row that appears starts at (0, 1).
CursorStep ==
    /\ \A pg \in player_game :
          \E q \in player_game' :
              /\ q.player_game_id = pg.player_game_id
              /\ q.player_id = pg.player_id
              /\ q.game_id = pg.game_id
              /\ \/ /\ q.next_required = pg.next_required
                    /\ q.checkpoints_scanned = pg.checkpoints_scanned
                 \/ /\ q.next_required = pg.next_required + 1
                    /\ q.checkpoints_scanned = pg.checkpoints_scanned + 1
    /\ \A q \in player_game' :
          (\A pg \in player_game : pg.player_game_id # q.player_game_id)
          => (q.next_required = 1 /\ q.checkpoints_scanned = 0)
    /\ Cardinality(player_game') >= Cardinality(player_game)

\* C10: next_required is 1 when a player joins; every step leaves a cursor's
\* next_required and checkpoints_scanned unchanged or raises both by exactly
\* 1; no step lowers either or removes a PlayerGame row.
C10_CursorMonotonic == [][CursorStep]_vars

\* A scan was just recorded and moved a cursor two past its start.
C10_Witness ==
    /\ bret = BExit("scan_checkpoint", 251)
    /\ \E pg \in player_game : pg.next_required = 3

\* The ten digits, and the number n written with exactly four of them.
Digits == <<"0", "1", "2", "3", "4", "5", "6", "7", "8", "9">>
FourDigits(n) ==
    Digits[((n \div 1000) % 10) + 1] \o Digits[((n \div 100) % 10) + 1]
        \o Digits[((n \div 10) % 10) + 1] \o Digits[(n % 10) + 1]

\* GAME followed by the number n, zero padded to four digits and longer
\* than four digits when n needs more.
PaddedCode(n) ==
    IF n < CodeRollover THEN "GAME" \o FourDigits(n)
    ELSE "GAME" \o Digits[(n \div CodeRollover) + 1]
                \o FourDigits(n % CodeRollover)

\* A create_game step adds exactly one game, whose game_id and code are those
\* of no game that was there, whose game_id is greater than all of theirs and
\* is the number the code spells, the first one being 1.
CreateStep ==
    (bret' = BExit("create_game", 102))
    => /\ Cardinality(game') = Cardinality(game) + 1
       /\ game \subseteq game'
       /\ \A g \in game' \ game :
             /\ \A e \in game : e.game_id < g.game_id /\ e.code # g.code
             /\ g.code = PaddedCode(g.game_id)
             /\ game = {} => g.game_id = 1

\* A create_game step adds a game whose code is GAME and four digits.
FourDigitStep ==
    (bret' = BExit("create_game", 102))
    => \A g \in game' \ game :
          /\ Len(g.code) = 8
          /\ \E n \in 0..(CodeRollover - 1) : g.code = "GAME" \o FourDigits(n)

\* C16 as stated: every create_game call adds exactly one game, whose code is
\* GAME followed by a four-digit zero-padded number and whose code and
\* game_id differ from those of every existing game; the first code is
\* GAME0001 and codes are assigned in increasing order.
C16_FourDigitCodes == [][CreateStep /\ FourDigitStep]_vars

\* C16 amended: every create_game call adds exactly one game, whose code is
\* GAME followed by a number zero padded to at least four digits (five from
\* the 10000th game on) and whose code and game_id differ from those of
\* every existing game; the first code is GAME0001 and codes are assigned in
\* increasing order.
C16_PaddedCodes == [][CreateStep]_vars

\* The 10000th game has been created and carries a five-digit code.
C16_Witness ==
    /\ bret = BExit("create_game", 102)
    /\ \E g \in game : g.game_id = CodeRollover /\ g.code = "GAME10000"

\* In a run the game table is the one its number of rows stands for.
RunTables == game = GamesCreated(Cardinality(game))

\* What join_game leaves, by the game the code names: nothing new for an
\* unknown code; for an active game one new player with a fresh player_id and
\* one new PlayerGame row of that player and game at the start of the course.
JoinOutcome ==
    \A code \in GameCodes, name \in Names :
        LET r == join_game_call(code, name)
            found == FindGame(code)
            joined == r.player \ player
            rows == r.player_game \ player_game
        IN /\ r.game = game /\ r.checkpoint = checkpoint
           /\ r.scan_event = scan_event
           /\ player \subseteq r.player /\ player_game \subseteq r.player_game
           /\ found = None => r.player = player /\ r.player_game = player_game
           /\ (found # None /\ Unwrap(found).is_active)
              => /\ Cardinality(joined) = 1
                 /\ \A new \in joined :
                       /\ \A p \in player : p.player_id # new.player_id
                       /\ Cardinality(rows) = 1
                       /\ \A pg \in rows :
                             /\ pg.player_id = new.player_id
                             /\ pg.game_id = Unwrap(found).game_id
                             /\ pg.checkpoints_scanned = 0
                             /\ pg.last_scan_at = None
                             /\ pg.next_required = 1
                       /\ \A pg \in r.player_game :
                             pg.player_id = new.player_id => pg \in rows

\* No two PlayerGame rows have the same player and game.
OnePlayerGamePerPair ==
    \A a \in player_game, b \in player_game :
        (a.player_id = b.player_id /\ a.game_id = b.game_id) => a = b

\* C18: join_game on an existing active game creates one new player whose
\* player_id differs from every existing one and exactly one PlayerGame row
\* for that player and game with checkpoints_scanned 0, no last_scan_at and
\* next_required 1; at most one PlayerGame row exists per player and game in
\* every reachable state; join_game with an unknown code adds nothing.
C18_JoinGame == JoinOutcome /\ OnePlayerGamePerPair

\* Two players have joined, the second just now, and one of them has scanned.
C18_Witness ==
    /\ bret = BExit("join_game", 178)
    /\ Cardinality(player) = 2
    /\ Cardinality(player_game) = 2
    /\ scan_event # {}

\* C20: a scan_checkpoint call by player P in game G changes at most the one
\* PlayerGame row of (P, G) and adds at most one scan event, for (G, P); it
\* never changes a game, checkpoint or player row nor the PlayerGame row of
\* another player or game; when P has no PlayerGame row for G it changes
\* nothing.
C20_ScanFrame ==
    \A pid \in PlayerIdInputs, code \in GameCodes, uid \in NfcUids,
       tok \in Tokens, ts \in Timestamps :
        LET r == scan_checkpoint_call(pid, code, uid, tok, ts)
            found == FindGame(code)
            Mine(pg) == /\ found # None
                        /\ pg.player_id = pid
                        /\ pg.game_id = Unwrap(found).game_id
            added == r.scan_event \ scan_event
        IN /\ r.game = game /\ r.checkpoint = checkpoint /\ r.player = player
           /\ {pg \in r.player_game : ~Mine(pg)}
                 = {pg \in player_game : ~Mine(pg)}
           /\ Cardinality({pg \in r.player_game : Mine(pg)}) <= 1
           /\ scan_event \subseteq r.scan_event
           /\ Cardinality(added) <= 1
           /\ \A se \in added :
                 /\ found # None
                 /\ se.player_id = pid
                 /\ se.game_id = Unwrap(found).game_id
           /\ (~\E pg \in player_game : Mine(pg))
              => r.player_game = player_game /\ r.scan_event = scan_event

\* A scan by a player who has not joined the game has just been turned down
\* while another player of that game has scanned.
C20_Witness ==
    /\ bret = BExit("scan_checkpoint", 206)
    /\ scan_event # {}
    /\ player_game # {}

\* ====================================================== server properties
\* The progress rows of player_id in game_id.
Claimed(game_id, player_id, tag_id) ==
    \E p \in progress :
        p.game_id = game_id /\ p.player_id = player_id /\ p.tag_id = tag_id

\* Every tag of the row's game whose order_index is set and strictly below
\* that of the row's tag was already claimed by the row's player.
LowerTagsClaimed(row) ==
    \A t \in tags, u \in tags :
        (/\ t.tag_id = row.tag_id
         /\ u.game_id = row.game_id
         /\ t.order_index # None
         /\ u.order_index # None
         /\ Unwrap(u.order_index) < Unwrap(t.order_index))
        => Claimed(row.game_id, row.player_id, u.tag_id)

\* C2: a claim_tag step adds a progress row for a tag of order_index k only
\* if the player already has progress rows in the game for every tag of the
\* game with a smaller order_index.
C2_ClaimInOrder ==
    [][(sret'.op = "claim_tag" /\ progress' # progress)
       => \A row \in progress' \ progress : LowerTagsClaimed(row)]_vars

\* The messages that stand for InvalidState.
InvalidState == {"Game is not in setup status", "Game is not active"}

\* A game row that stays keeps its status or moves setup -> active in a
\* start_game call or active -> ended in an end_game call; a row that
\* appears is in setup.
LifecycleStep ==
    /\ \A g \in games, h \in games' :
          g.game_id = h.game_id
          => \/ h = g
             \/ /\ g.status = "setup" /\ h.status = "active"
                /\ sret'.op = "start_game"
             \/ /\ g.status = "active" /\ h.status = "ended"
                /\ sret'.op = "end_game"
    /\ \A h \in games' :
          (\A g \in games : g.game_id # h.game_id) => h.status = "setup"

\* start_game on an active or ended game and end_game on a setup or ended
\* game return an InvalidState error and change no table.
IllegalTransitionRefused ==
    \A g \in games :
        /\ g.status \in {"active", "ended"}
           => LET r == start_game_call(g.game_id)
              IN r.ret.val \in InvalidState /\ r = SReturn(r.ret.op, r.ret.line, r.ret.val)
        /\ g.status \in {"setup", "ended"}
           => LET r == end_game_call(g.game_id)
              IN r.ret.val \in InvalidState /\ r = SReturn(r.ret.op, r.ret.line, r.ret.val)

\* C3: the status of a game row changes only setup -> active (start_game)
\* and active -> ended (end_game), never backward; start_game on an active or
\* ended game and end_game on a setup or ended game fail with InvalidState and
\* leave the tables unchanged.
C3_Lifecycle == []IllegalTransitionRefused /\ [][LifecycleStep]_vars

\* An ended game on which start_game has just been refused.
C3_Witness ==
    /\ sret = SRet("start_game", 66, "Game is not in setup status")
    /\ \E g \in games : g.status = "ended" /\ g.ended_at = Some(0)

\* The claim is valid: the game is active, the tag exists, is active and
\* belongs to the game.
ValidClaim(game_id, tag_id) ==
    /\ \E g \in games : g.game_id = game_id /\ g.status = "active"
    /\ \E t \in tags : t.tag_id = tag_id /\ t.is_active /\ t.game_id = game_id

\* C4: a claim_tag step on a valid claim with no progress row yet for
\* (game_id, player_id, tag_id) returns success and leaves exactly one such
\* row, whatever other rows the game already has.
C4_ValidClaimRecorded ==
    [][\A g \in GameIds, p \in PlayerIds, t \in TagIds :
          (/\ ValidClaim(g, t)
           /\ ~Claimed(g, p, t)
           /\ claim_tag(g, p, t))
          => /\ sret'.val = Ok
             /\ Cardinality({r \in progress' : r.game_id = g /\ r.player_id = p
                                               /\ r.tag_id = t}) = 1]_vars

\* C6: no two tags of one game have the same set order_index, and no two
\* tags share a tag_id.
C6_TagUniqueness ==
    \A t \in tags, u \in tags :
        t # u => /\ t.tag_id # u.tag_id
                 /\ (t.game_id = u.game_id /\ t.order_index # None)
                    => t.order_index # u.order_index

\* C8: claim_tag for a (game_id, player_id, tag_id) that already has a
\* progress row, with the game active and the tag active, returns success and
\* leaves every table, the progress table included, as it was.
C8_IdempotentReclaim ==
    \A g \in GameIds, p \in PlayerIds, t \in TagIds :
        (/\ Claimed(g, p, t)
         /\ \E gr \in games : gr.game_id = g /\ gr.status = "active"
         /\ \E tr \in tags : tr.tag_id = t /\ tr.is_active)
        => LET r == claim_tag_call(g, p, t)
           IN r.ret.val = Ok /\ r.progress = progress

\* A claim was just answered by the already-claimed return, its row in place.
C8_Witness ==
    /\ sret = SRet("claim_tag", 185, Ok)
    /\ progress # {}

\* The messages that stand for NotFound.
NotFound == {"Game not found", "Tag not found", "Progress entry not found"}

\* A successful delete_game_cascade step: the one game that disappears takes
\* its tags and progress rows with it and nothing else, and in the state
\* reached every call that names the game, or one of its former tags, fails
\* with NotFound.
CascadeStep ==
    (sret' = SRet("delete_game_cascade", 329, Ok))
    => \E g \in games :
          /\ games' = games \ {g}
          /\ tags' = {t \in tags : t.game_id # g.game_id}
          /\ progress' = {p \in progress : p.game_id # g.game_id}
          /\ (start_game_call(g.game_id).ret.val \in NotFound)'
          /\ (end_game_call(g.game_id).ret.val \in NotFound)'
          /\ \A t \in TagIds, c \in Clues, oi \in OrderIndexes :
                (activate_tag_call(g.game_id, t, c, oi).ret.val \in NotFound)'
          /\ \A p \in PlayerIds :
                (delete_player_call(g.game_id, p).ret.val \in NotFound)'
          /\ \A b \in BOOLEAN :
                (delete_game_cascade_call(g.game_id, b).ret.val \in NotFound)'
          /\ \A t \in tags :
                t.game_id = g.game_id
                => (delete_tag_call(g.game_id, t.tag_id).ret.val \in NotFound)'

\* delete_game_cascade on an existing game succeeds.
CascadeSucceeds ==
    \A g \in games, b \in BOOLEAN :
        delete_game_cascade_call(g.game_id, b).ret.val = Ok

\* C11: delete_game_cascade on an existing game removes the game row, every
\* tag and every progress row of that game, leaves the rows of every other
\* game unchanged, and afterwards start_game, end_game, activate_tag,
\* delete_player and delete_game_cascade for the game and delete_tag for its
\* former tags fail with NotFound.
C11_CascadeDelete == []CascadeSucceeds /\ [][CascadeStep]_vars

\* A cascade has just removed one game while another game keeps a tag and a
\* progress row.
C11_Witness ==
    /\ sret = SRet("delete_game_cascade", 329, Ok)
    /\ Cardinality(games) = 1
    /\ tags # {}
    /\ progress # {}

\* C12: delete_tag on an existing tag of the game returns success, removes
\* that tag and exactly the progress rows that reference it, and leaves every
\* other progress row, every other tag and every game and player row
\* unchanged.
C12_DeleteTagFrame ==
    \A t \in tags :
        LET r == delete_tag_call(t.game_id, t.tag_id)
        IN /\ r.ret.val = Ok
           /\ r.tags = tags \ {t}
           /\ r.progress = {p \in progress : p.tag_id # t.tag_id}
           /\ r.games = games
           /\ r.players = players

\* A tag has just been deleted while a progress row of another tag stays.
C12_Witness ==
    /\ sret = SRet("delete_tag", 228, Ok)
    /\ progress # {}
    /\ players # {}

\* C13: delete_game_cascade with the flag set deletes exactly the players
\* that have no progress row left once the game's rows are gone, and keeps
\* every player with a progress row in another game; without the flag the
\* players table is unchanged.
C13_OrphanPlayers ==
    \A g \in games :
        /\ delete_game_cascade_call(g.game_id, FALSE).players = players
        /\ delete_game_cascade_call(g.game_id, TRUE).players =
              {pl \in players :
                  \E p \in progress :
                      p.game_id # g.game_id /\ p.player_id = pl.player_id}

\* After a cascade one registered player is left and has a progress row,
\* while the row of another player is gone with its game.
C13_Witness ==
    /\ sret = SRet("delete_game_cascade", 329, Ok)
    /\ Cardinality(players) = 1
    /\ \A pl \in players : \E p \in progress : p.player_id = pl.player_id

\* The row activate_tag is said to leave: the arguments of the call, active.
SuppliedTag(game_id, tag_id, clue, order_index) ==
    [tag_id |-> tag_id, game_id |-> game_id, is_active |-> TRUE,
     clue |-> clue, order_index |-> order_index]

\* After activate_tag on an existing game the only row of the tag is the
\* supplied one.
FullReplace ==
    \A g \in games, t \in TagIds, c \in Clues, oi \in OrderIndexes :
        LET r == activate_tag_call(g.game_id, t, c, oi)
        IN {u \in r.tags : u.tag_id = t} = {SuppliedTag(g.game_id, t, c, oi)}

\* Repeating an activate_tag call that has just been made changes nothing.
ActivateTwice ==
    \A g \in GameIds, t \in TagIds, c \in Clues, oi \in OrderIndexes :
        (activate_tag(g, t, c, oi) /\ sret'.val = Ok)
        => (activate_tag_call(g, t, c, oi).tags = tags)'

\* C14: activate_tag on an existing game is a full replace: afterwards the
\* row of the tag is exactly (tag_id, game_id, active, clue, order_index) as
\* supplied, an omitted clue or order_index is empty even if the previous row
\* had one, and calling it twice with the same arguments gives the state that
\* calling it once gives.
C14_FullReplace == []FullReplace /\ [][ActivateTwice]_vars

\* The messages that stand for GameNotActive and CheckpointInactive.
GameNotActive == {"Game is not active"}
CheckpointInactive == {"Tag is not active"}

\* The outcome of claim_tag by the state of the game and of the tag, the game
\* being looked at first.
ClaimGuards ==
    \A g \in GameIds, p \in PlayerIds, t \in TagIds :
        LET r == claim_tag_call(g, p, t)
            found == FindGameRow(g)
            found_tag == FindTag(t)
            refused == /\ r.progress = progress /\ r.games = games
                       /\ r.tags = tags /\ r.players = players
        IN /\ found = None => r.ret.val \in NotFound /\ refused
           /\ (found # None /\ Unwrap(found).status # "active")
              => r.ret.val \in GameNotActive /\ refused
           /\ (found # None /\ Unwrap(found).status = "active"
               /\ found_tag = None)
              => r.ret.val \in NotFound /\ refused
           /\ (found # None /\ Unwrap(found).status = "active"
               /\ found_tag # None /\ ~Unwrap(found_tag).is_active)
              => r.ret.val \in CheckpointInactive /\ refused
           /\ r.progress # progress
              => /\ found # None /\ Unwrap(found).status = "active"
                 /\ found_tag # None /\ Unwrap(found_tag).is_active
                 /\ Unwrap(found_tag).game_id = g

\* A step adds progress rows only to games that are active before it.
ProgressOnlyWhileActive ==
    \A row \in progress' \ progress :
        \E g \in games : g.game_id = row.game_id /\ g.status = "active"

\* C15: claim_tag adds a progress row only when the game exists and is
\* active and the tag exists, is active and belongs to the game; a missing
\* game or tag fails with NotFound, a game in setup or ended with
\* GameNotActive, an inactive tag with CheckpointInactive, the tables staying
\* as they were; so no progress row is ever added to a game in setup or ended.
C15_ClaimGuards == []ClaimGuards /\ [][ProgressOnlyWhileActive]_vars

\* A claim has just been refused on an ended game that has a tag and keeps
\* its earlier progress row.
C15_Witness ==
    /\ sret = SRet("claim_tag", 159, "Game is not active")
    /\ \E g \in games :
          /\ g.status = "ended"
          /\ \E t \in tags : t.game_id = g.game_id
          /\ \E p \in progress : p.game_id = g.game_id

\* The reducers that can return an error.
FallibleReducers ==
    {"create_game", "start_game", "end_game", "activate_tag", "claim_tag",
     "delete_tag", "delete_player", "delete_progress", "delete_game_cascade"}

\* What a reducer hands back as an error: one of its Err messages, or the
\* failure of the call when an insert panics.
ErrorValues ==
    {"Game with this ID already exists", "Game is not in setup status",
     "Game is not active", "Game not found", "Tag is not active",
     "Tag does not belong to this game", "Tag not found",
     "Progress entry not found", Panic}

\* A step of one of these reducers returns success or an error, and with an
\* error the four tables are as before.
ErrorStep ==
    (sret' # sret /\ sret'.op \in FallibleReducers)
    => \/ sret'.val = Ok
       \/ /\ sret'.val \in ErrorValues
          /\ UNCHANGED <<games, tags, players, progress>>

\* A step that leaves the result of the last call as it is leaves the tables
\* as they are when that result is an error.
RepeatedErrorStep ==
    (sret' = sret /\ IsErr(sret))
    => UNCHANGED <<games, tags, players, progress>>

C19_ReferentialIntegrity ==
    /\ \A p \in progress :
          /\ \E g \in games : g.game_id = p.game_id
          /\ \E t \in tags : t.tag_id = p.tag_id /\ t.game_id = p.game_id
    /\ \A t \in tags : \E g \in games : g.game_id = t.game_id

\* Two games each have a claimed tag, and a tag has just been activated
\* again.
C19_Witness ==
    /\ sret = SRet("activate_tag", 129, Ok)
    /\ Cardinality(games) = 2
    /\ Cardinality(progress) = 2
====
